---- MODULE Spec2Model ----
(***************************************************************************)
(* Breakout (games/breakout) with its stepping plugin.                     *)
(*                                                                         *)
(* Numbers.  The program computes in f32.  Every position the game can     *)
(* reach from its constants in a fixed tick of 1/64 s is a multiple of     *)
(* 1/64 px, except those of the ball, whose speed per axis is              *)
(* 400/sqrt(2) = 282.8427 px/s.  The game specifications keep lengths as   *)
(* integers in units of 1/U px, U = FIXED_HZ * SPEED_SCALE, and a velocity *)
(* as the number of units moved per tick, which is the velocity in px/s    *)
(* times SPEED_SCALE.  With SPEED_SCALE = 19 the ball's speed per axis is  *)
(* 5374.0115 units per tick and is kept as 5374.  Pure functions           *)
(* (ball_collision) take their arguments in whatever unit the caller uses. *)
(*                                                                         *)
(* Specifications.  SpecCollide runs the loop of check_for_collisions on   *)
(* small boxes and ball centres.  SpecArena runs setup and then            *)
(* FixedUpdate, tick after tick, under any arrow keys.  Spec runs the app: *)
(* Startup, then frames of the engine's main schedule with the game        *)
(* systems, the Stepping resource and the plugin's DebugSchedule.          *)
(* SpecSheet and SpecRotation run 2d/sprite_sheet and 2d/twod_rotation.    *)
(* All share the variables; each keeps the ones it does not use at their   *)
(* initial values.                                                         *)
(***************************************************************************)
EXTENDS Integers, Sequences, FiniteSets, TLC

VARIABLES
    \* ---- the collision loop of check_for_collisions, one iteration at a time
    cball,          \* ball centre given to the loop
    cvel,           \* ball velocity, updated by the loop
    ccolliders,     \* the colliders the query yields, in order
    cidx,           \* number of colliders already visited
    ccollision,     \* result of the last ball_collision call ("Unset" before)
    cscore,         \* Score
    cevents,        \* CollisionEvents sent so far
    cdespawned,     \* places (in the query) of the colliders despawned so far
    \* ---- the game world
    pc,                 \* what runs next: "startup", a system, or "panicked"
    setup_checks,       \* the values setup and WallLocation::size assert on
    paddle_translation, \* Transform.translation of the paddle, <<x, y>>
    ball_translation,   \* Transform.translation of the ball, <<x, y>>
    ball_velocity,      \* Velocity of the ball, <<x, y>>
    walls,              \* the four walls, in spawn order, as [center, half]
    bricks,             \* centres of the live bricks, in the order the query yields them
    score,              \* Score
    \* ---- input of the frame
    arrows,             \* the arrow keys held: a subset of {"ArrowLeft", "ArrowRight"}
    just_pressed,       \* keys just pressed: a subset of {"Backquote", "Space", "KeyS"}
    fixed_left,         \* runs of FixedUpdate still to come in this frame
    \* ---- the app
    feature,            \* cfg!(feature = "bevy_debug_stepping")
    frame,              \* frames begun
    scoreboard,         \* the score the scoreboard's second span shows (-1: empty)
    audio_players,      \* AudioPlayer entities spawned so far
    events,             \* Events<CollisionEvent>: unread events per buffer, [old, new]
    should_update,      \* EventRegistry.should_update: "Always", "Waiting" or "Ready"
    \* ---- stepping
    stepping,           \* the Stepping resource
    skip,               \* the systems the running schedule skips
    schedule_ran,       \* the stepped schedules that have run at least once
    state_systems,      \* State.systems: <<label, system, text index>>
    ui,                 \* Visibility of each SteppingUi entity
    ui_mark,            \* text index that shows the cursor "-> " (0: none)
    \* ---- what ran (history)
    calls,              \* the Stepping methods the last run of handle_input called
    ran,                \* the systems that ran in this frame
    tick,               \* of the last FixedUpdate run: events sent, audio players
                        \* spawned, events unread at its start, systems that ran
    \* ---- the arena on its own
    arena_ticks,        \* runs of FixedUpdate so far (counted in SpecArena only)
    \* ---- 2d/sprite_sheet
    sheet_pc,           \* "startup" before setup has run, then "update"
    sheet_frames,       \* frames run so far
    atlas_index,        \* Sprite.texture_atlas.index of the animated sprite
    animation_timer,    \* AnimationTimer: [elapsed (ns), times_finished_this_tick]
    \* ---- 2d/twod_rotation
    rot_pc,             \* "startup" before setup has run, then "fixed_update"
    player_translation, \* Transform.translation of the player, <<x, y, z>>
    player_heading,     \* Transform.rotation of the player: turns about z, in
                        \* steps of one tick's rotation, counterclockwise from +Y
    flight              \* the ticks flown so far: [turns, cruise, free]

collideVars == <<cball, cvel, ccolliders, cidx, ccollision, cscore, cevents, cdespawned>>

worldVars == <<setup_checks, paddle_translation, ball_translation, ball_velocity,
               walls, bricks, score>>

appVars == <<just_pressed, fixed_left, feature, frame, scoreboard, audio_players, events,
             should_update, stepping, skip, schedule_ran, state_systems, ui, ui_mark,
             calls, ran, tick>>

arenaVars == <<arena_ticks>>

sheetVars == <<sheet_pc, sheet_frames, atlas_index, animation_timer>>

rotVars == <<rot_pc, player_translation, player_heading, flight>>

vars == <<collideVars, pc, worldVars, arrows, appVars, arenaVars, sheetVars, rotVars>>

(***************************************************************************)
(* Program constants (pixels, pixels per second)                           *)
(***************************************************************************)
PADDLE_SIZE_X == 120
PADDLE_SIZE_Y == 20
GAP_BETWEEN_PADDLE_AND_FLOOR == 60
PADDLE_SPEED == 500
PADDLE_PADDING == 10
BALL_STARTING_POSITION_X == 0
BALL_STARTING_POSITION_Y == -50
BALL_DIAMETER == 30
BALL_SPEED == 400
\* INITIAL_BALL_DIRECTION = (0.5, -0.5), kept in halves
INITIAL_BALL_DIRECTION == <<1, -1>>
WALL_THICKNESS == 10
LEFT_WALL == -450
RIGHT_WALL == 450
BOTTOM_WALL == -300
TOP_WALL == 300
BRICK_SIZE_X == 100
BRICK_SIZE_Y == 30
GAP_BETWEEN_PADDLE_AND_BRICKS == 270
GAP_BETWEEN_BRICKS == 5
GAP_BETWEEN_BRICKS_AND_CEILING == 20
GAP_BETWEEN_BRICKS_AND_SIDES == 20
\* FixedUpdate runs at 64 Hz: Time::delta_secs() is 1/64 in every system of it
FIXED_HZ == 64
\* one velocity unit is 1/SPEED_SCALE px/s, one length unit 1/(64 * 19) px
SPEED_SCALE == 19

(***************************************************************************)
(* Bounds of the model                                                     *)
(***************************************************************************)
\* ball centres given to the collision loop: -GridMax..GridMax on both axes
GridMax == 17
\* the collision loop is given 1..MaxColliders colliders
MaxColliders == 2
\* the arena on its own runs FixedUpdate MaxArenaTicks times (the paddle
\* reaches a bound of its range in 48 ticks and is held there in the 49th;
\* the ball can reach the paddle from tick 38 on)
MaxArenaTicks == 49
\* the first QuietFrames frames run FixedUpdate once each with no key touched
\* (the ball first reaches the bottom wall in the tick after them)
QuietFrames == 52
\* then MaxFrames frames follow, each under any of the stepping keys, any of
\* FrameArrows and 0..MaxFixedRuns runs of FixedUpdate
MaxFrames == 6
MaxFixedRuns == 1
\* the sprite sheet runs MaxSheetFrames frames; a frame lasts a whole number
\* of milliseconds up to MaxDeltaMs, or one or two timer durations to the
\* nanosecond
MaxSheetFrames == 6
MaxDeltaMs == 250
\* the ship turns for up to MaxTurnTicks ticks, flies straight for up to
\* MaxCruiseTicks ticks (84 take it from the centre into a corner of the
\* bounds) and then flies under any keys for up to MaxFreeTicks ticks
MaxTurnTicks == 59
MaxCruiseTicks == 85
MaxFreeTicks == 1

(***************************************************************************)
(* Vec2 helpers                                                            *)
(***************************************************************************)
Abs(x) == IF x < 0 THEN -x ELSE x

Min(a, b) == IF a < b THEN a ELSE b

Max(a, b) == IF a > b THEN a ELSE b

\* f32::clamp / Vec2::clamp component
Clamp(x, lo, hi) == Min(Max(x, lo), hi)

(***************************************************************************)
(* bevy_math bounding volumes, as ball_collision uses them                 *)
(***************************************************************************)
\* BoundingCircle::new(center, radius)
BoundingCircle(center, radius) == [center |-> center, radius |-> radius]

\* Aabb2d::new(center, half_size): min = center - half_size, max = center + half_size
Aabb2d(center, half_size) ==
    [min |-> <<center[1] - half_size[1], center[2] - half_size[2]>>,
     max |-> <<center[1] + half_size[1], center[2] + half_size[2]>>]

\* Aabb2d::closest_point(point) = point.clamp(min, max)
closest_point(bounding_box, point) ==
    <<Clamp(point[1], bounding_box.min[1], bounding_box.max[1]),
      Clamp(point[2], bounding_box.min[2], bounding_box.max[2])>>

\* BoundingCircle::intersects(&Aabb2d):
\*   center.distance_squared(aabb.closest_point(center)) <= radius^2.
\* The two Abs tests only keep the squares inside TLC's 32-bit integers:
\* |d| > r implies d*d > r*r.
intersects(ball, bounding_box) ==
    LET closest == closest_point(bounding_box, ball.center)
        dx == ball.center[1] - closest[1]
        dy == ball.center[2] - closest[2]
    IN  /\ Abs(dx) <= ball.radius
        /\ Abs(dy) <= ball.radius
        /\ dx * dx + dy * dy <= ball.radius * ball.radius

(***************************************************************************)
(* ball_collision                                                          *)
(***************************************************************************)
ball_collision_swapped_axes(ball, bounding_box) ==
    IF ~intersects(ball, bounding_box) THEN "None"
    ELSE LET closest == closest_point(bounding_box, ball.center)
             offset  == <<ball.center[1] - closest[1], ball.center[2] - closest[2]>>
         IN  IF Abs(offset[1]) >= Abs(offset[2])
             THEN (IF offset[1] < 0 THEN "Left" ELSE "Right")
             ELSE IF offset[2] > 0 THEN "Top" ELSE "Bottom"

ball_collision(ball, bounding_box) ==
    IF ~intersects(ball, bounding_box) THEN "None"
    ELSE LET closest == closest_point(bounding_box, ball.center)
             offset  == <<ball.center[1] - closest[1], ball.center[2] - closest[2]>>
         IN  IF Abs(offset[1]) > Abs(offset[2])
             THEN (IF offset[1] < 0 THEN "Left" ELSE "Right")
             ELSE IF offset[2] > 0 THEN "Top" ELSE "Bottom"

(***************************************************************************)
(* check_for_collisions: the body of its loop, for one collider.           *)
(* acc = [vel, score, events, despawned]; c = [center, half, brick]; i is  *)
(* the collider's place in the query.                                      *)
(***************************************************************************)
reflect_always(collision, velocity) ==
    LET reflect_x == collision \in {"Left", "Right"}
        reflect_y == collision \in {"Top", "Bottom"}
    IN  <<IF reflect_x THEN -velocity[1] ELSE velocity[1],
          IF reflect_y THEN -velocity[2] ELSE velocity[2]>>

\* lines 416-435: reflect only when the ball moves toward the side it hit
reflect(collision, velocity) ==
    LET reflect_x == CASE collision = "Left"  -> velocity[1] > 0
                       [] collision = "Right" -> velocity[1] < 0
                       [] OTHER -> FALSE
        reflect_y == CASE collision = "Top"    -> velocity[2] < 0
                       [] collision = "Bottom" -> velocity[2] > 0
                       [] OTHER -> FALSE
    IN  <<IF reflect_x THEN -velocity[1] ELSE velocity[1],
          IF reflect_y THEN -velocity[2] ELSE velocity[2]>>

\* the collision the loop computes for collider c (lines 396-402)
collider_collision(translation, radius, c) ==
    ball_collision(BoundingCircle(translation, radius), Aabb2d(c.center, c.half))

collide_one(acc, translation, radius, c, i) ==
    LET collision == collider_collision(translation, radius, c)
    IN  IF collision = "None" THEN acc
        ELSE [vel       |-> reflect(collision, acc.vel),
              score     |-> IF c.brick THEN acc.score + 1 ELSE acc.score,
              events    |-> acc.events + 1,
              despawned |-> IF c.brick THEN Append(acc.despawned, i) ELSE acc.despawned]

(***************************************************************************)
(* setup (Startup).  Lengths leave setup in units of 1/U px.               *)
(***************************************************************************)
\* length units per px
U == FIXED_HZ * SPEED_SCALE

WallLocations == <<"Left", "Right", "Bottom", "Top">>

\* WallLocation::position, in px
WallPosition(location) ==
    CASE location = "Left"   -> <<LEFT_WALL, 0>>
      [] location = "Right"  -> <<RIGHT_WALL, 0>>
      [] location = "Bottom" -> <<0, BOTTOM_WALL>>
      [] location = "Top"    -> <<0, TOP_WALL>>

arena_height == TOP_WALL - BOTTOM_WALL

arena_width == RIGHT_WALL - LEFT_WALL

\* WallLocation::size, in px (its two assertions are checked by setup below)
WallSize(location) ==
    IF location \in {"Left", "Right"}
    THEN <<WALL_THICKNESS, arena_height + WALL_THICKNESS>>
    ELSE <<arena_width + WALL_THICKNESS, WALL_THICKNESS>>

\* WallBundle::new: translation = position, scale = size; as a collider the
\* wall is the box of that centre and half that size
WallBundle(location) ==
    [center |-> <<WallPosition(location)[1] * U, WallPosition(location)[2] * U>>,
     half   |-> <<(WallSize(location)[1] * U) \div 2, (WallSize(location)[2] * U) \div 2>>]

paddle_y == BOTTOM_WALL + GAP_BETWEEN_PADDLE_AND_FLOOR

total_width_of_bricks == (RIGHT_WALL - LEFT_WALL) - 2 * GAP_BETWEEN_BRICKS_AND_SIDES

bottom_edge_of_bricks == paddle_y + GAP_BETWEEN_PADDLE_AND_BRICKS

total_height_of_bricks_sign_slip ==
    TOP_WALL - bottom_edge_of_bricks - GAP_BETWEEN_PADDLE_AND_BRICKS

total_height_of_bricks == TOP_WALL - bottom_edge_of_bricks - GAP_BETWEEN_BRICKS_AND_CEILING

\* (x / y).floor() as usize: the cast saturates a negative value to 0
FloorDivAsUsize(x, y) == IF x < 0 THEN 0 ELSE x \div y

n_columns == FloorDivAsUsize(total_width_of_bricks, BRICK_SIZE_X + GAP_BETWEEN_BRICKS)

n_rows == FloorDivAsUsize(total_height_of_bricks, BRICK_SIZE_Y + GAP_BETWEEN_BRICKS)

\* n_columns - 1 on usize; below zero the subtraction overflows
n_vertical_gaps == n_columns - 1

center_of_bricks_x2 == LEFT_WALL + RIGHT_WALL

\* left_edge_of_bricks, in length units:
\*   center - n_columns / 2 * BRICK_SIZE.x - n_vertical_gaps / 2 * GAP_BETWEEN_BRICKS
left_edge_of_bricks ==
    (center_of_bricks_x2 * U) \div 2
        - (n_columns * BRICK_SIZE_X * U) \div 2
        - (n_vertical_gaps * GAP_BETWEEN_BRICKS * U) \div 2

offset_x == left_edge_of_bricks + (BRICK_SIZE_X * U) \div 2

offset_y == bottom_edge_of_bricks * U + (BRICK_SIZE_Y * U) \div 2

brick_position_no_gap(row, column) ==
    <<offset_x + column * (BRICK_SIZE_X * U),
      offset_y + row * ((BRICK_SIZE_Y + GAP_BETWEEN_BRICKS) * U)>>

\* the centre of the brick of a row and column, both counted from 0
brick_position(row, column) ==
    <<offset_x + column * ((BRICK_SIZE_X + GAP_BETWEEN_BRICKS) * U),
      offset_y + row * ((BRICK_SIZE_Y + GAP_BETWEEN_BRICKS) * U)>>

\* the bricks in spawn order: rows outside, columns inside
BrickGrid ==
    [k \in 1..(n_rows * n_columns) |->
        brick_position((k - 1) \div n_columns, (k - 1) % n_columns)]

\* INITIAL_BALL_DIRECTION.normalize() * BALL_SPEED on one axis, in velocity
\* units, rounded to the nearest integer: with s = BALL_SPEED * SPEED_SCALE
\* the v with (2v-1)^2 <= (2 * s * d / |dir|)^2 < (2v+1)^2
BallAxisSpeed(d) ==
    LET n2 == INITIAL_BALL_DIRECTION[1] * INITIAL_BALL_DIRECTION[1]
                + INITIAL_BALL_DIRECTION[2] * INITIAL_BALL_DIRECTION[2]
        s  == BALL_SPEED * SPEED_SCALE
        t  == 4 * s * s * d * d
        v  == CHOOSE w \in 0..s :
                  (2 * w - 1) * (2 * w - 1) * n2 <= t /\ t < (2 * w + 1) * (2 * w + 1) * n2
    IN  IF d < 0 THEN -v ELSE v

\* what the assertions of setup and of WallLocation::size look at
SetupChecks ==
    [arena_height |-> arena_height,
     arena_width |-> arena_width,
     total_width_of_bricks |-> total_width_of_bricks,
     total_height_of_bricks |-> total_height_of_bricks,
     n_columns |-> n_columns]

AssertionsHold(checks) ==
    /\ checks.arena_height > 0
    /\ checks.arena_width > 0
    /\ checks.total_width_of_bricks > 0
    /\ checks.total_height_of_bricks > 0

\* setup.  A failed assert! panics.  n_columns - 1 below zero panics in a
\* build with overflow checks and wraps in one without; after a wrap the
\* brick loop runs over 0 columns and spawns nothing.
setup ==
    /\ pc = "startup"
    /\ setup_checks' = SetupChecks
    /\ IF ~AssertionsHold(SetupChecks)
       THEN /\ pc' = "panicked"
            /\ UNCHANGED <<paddle_translation, ball_translation, ball_velocity,
                           walls, bricks, score>>
       ELSE /\ pc' \in (IF n_vertical_gaps < 0 THEN {"panicked", "begin_frame"}
                        ELSE {"begin_frame"})
            /\ paddle_translation' = <<0, paddle_y * U>>
            /\ ball_translation' = <<BALL_STARTING_POSITION_X * U, BALL_STARTING_POSITION_Y * U>>
            /\ ball_velocity' = <<BallAxisSpeed(INITIAL_BALL_DIRECTION[1]),
                                  BallAxisSpeed(INITIAL_BALL_DIRECTION[2])>>
            /\ walls' = [w \in 1..Len(WallLocations) |-> WallBundle(WallLocations[w])]
            /\ bricks' = (IF n_vertical_gaps < 0 THEN <<>> ELSE BrickGrid)
            /\ score' = 0

(***************************************************************************)
(* move_paddle                                                             *)
(***************************************************************************)
Direction(held) ==
    (IF "ArrowLeft" \in held THEN -1 ELSE 0) + (IF "ArrowRight" \in held THEN 1 ELSE 0)

left_bound ==
    LEFT_WALL * U + (WALL_THICKNESS * U) \div 2 + (PADDLE_SIZE_X * U) \div 2 + PADDLE_PADDING * U

right_bound ==
    RIGHT_WALL * U - (WALL_THICKNESS * U) \div 2 - (PADDLE_SIZE_X * U) \div 2 - PADDLE_PADDING * U

move_paddle_wall_bound(translation, held) ==
    <<Clamp(translation[1] + Direction(held) * PADDLE_SPEED * SPEED_SCALE, LEFT_WALL * U, RIGHT_WALL * U),
      translation[2]>>

\* the paddle's translation after move_paddle; time.delta_secs() = 1/FIXED_HZ,
\* so direction * PADDLE_SPEED * delta is direction * PADDLE_SPEED velocity
\* units for one tick
move_paddle(translation, held) ==
    <<Clamp(translation[1] + Direction(held) * PADDLE_SPEED * SPEED_SCALE, left_bound, right_bound),
      translation[2]>>

(***************************************************************************)
(* apply_velocity, check_for_collisions, play_collision_sound,             *)
(* update_scoreboard: what each system does to the world                   *)
(***************************************************************************)
\* apply_velocity: translation += velocity * delta_secs, delta_secs = 1/FIXED_HZ:
\* a tick adds the velocity, units moved per tick, to the translation
apply_velocity(translation, velocity) ==
    <<translation[1] + velocity[1], translation[2] + velocity[2]>>

\* the brick as a collider: Aabb2d of its translation and half its scale
BrickCollider(center) ==
    [center |-> center, half |-> <<(BRICK_SIZE_X * U) \div 2, (BRICK_SIZE_Y * U) \div 2>>,
     brick |-> TRUE]

PaddleCollider(translation) ==
    [center |-> translation, half |-> <<(PADDLE_SIZE_X * U) \div 2, (PADDLE_SIZE_Y * U) \div 2>>,
     brick |-> FALSE]

WallCollider(wall) == [center |-> wall.center, half |-> wall.half, brick |-> FALSE]

\* what collider_query yields, in order: the tables of the paddle, of the
\* walls and of the bricks, in the order setup created them
collider_query(paddle, wall_table, brick_table) ==
    <<PaddleCollider(paddle)>>
        \o [w \in 1..Len(wall_table) |-> WallCollider(wall_table[w])]
        \o [b \in 1..Len(brick_table) |-> BrickCollider(brick_table[b])]

RECURSIVE collide_from(_, _, _, _, _, _)
\* the for loop of check_for_collisions over the colliders lo..hi, in order
\* (the range is split in two so that the evaluation stays shallow)
collide_from(acc, translation, radius, colliders, lo, hi) ==
    IF lo > hi THEN acc
    ELSE IF lo = hi THEN collide_one(acc, translation, radius, colliders[lo], lo)
    ELSE LET mid == (lo + hi) \div 2
             first == collide_from(acc, translation, radius, colliders, lo, mid)
         IN  \* the test is always true: it has the first half computed
             \* before the second half starts
             IF first.events >= 0
             THEN collide_from(first, translation, radius, colliders, mid + 1, hi)
             ELSE first

\* check_for_collisions on the world: [vel, score, events, despawned]
check_for_collisions(translation, velocity, paddle, wall_table, brick_table, old_score) ==
    LET colliders == collider_query(paddle, wall_table, brick_table)
    IN  collide_from([vel |-> velocity, score |-> old_score, events |-> 0, despawned |-> <<>>],
                     translation, (BALL_DIAMETER * U) \div 2, colliders, 1, Len(colliders))

\* despawn removes a row of the brick table the way Vec::swap_remove does
swap_remove(table, i) ==
    [k \in 1..(Len(table) - 1) |-> IF k = i THEN table[Len(table)] ELSE table[k]]

RECURSIVE despawn_all(_, _)
\* the despawn commands of one run, applied in the order they were queued
despawn_all(table, centers) ==
    IF centers = <<>> THEN table
    ELSE LET i == CHOOSE k \in 1..Len(table) : table[k] = Head(centers)
         IN  despawn_all(swap_remove(table, i), Tail(centers))

(***************************************************************************)
(* Events<CollisionEvent> as its one reader sees it.  The resource keeps   *)
(* two buffers; update() drops the older and makes the newer the older.    *)
(* old and new count the events of each buffer the reader of               *)
(* play_collision_sound has not read.                                      *)
(***************************************************************************)
send_default(ev, n) == [ev EXCEPT !.new = ev.new + n]

events_update(ev) == [old |-> ev.new, new |-> 0]

\* EventReader::is_empty
is_empty(ev) == ev.old + ev.new = 0

\* EventReader::clear
clear(ev) == [old |-> 0, new |-> 0]

\* play_collision_sound: [events, audio_players]
play_collision_sound(ev, players) ==
    IF ~is_empty(ev) THEN [events |-> clear(ev), audio_players |-> players + 1]
    ELSE [events |-> ev, audio_players |-> players]

\* FixedUpdate run whole: apply_velocity, move_paddle, check_for_collisions
\* and play_collision_sound one after the other, each on what the ones
\* before it left; sent counts the CollisionEvents of the run
fixed_update(ball, velocity, paddle, wall_table, brick_table, old_score, ev, players, held) ==
    LET moved_ball   == apply_velocity(ball, velocity)
        moved_paddle == move_paddle(paddle, held)
        hit          == check_for_collisions(moved_ball, velocity, moved_paddle,
                                             wall_table, brick_table, old_score)
        colliders    == collider_query(moved_paddle, wall_table, brick_table)
        left_bricks  == despawn_all(brick_table,
                            [k \in 1..Len(hit.despawned) |-> colliders[hit.despawned[k]].center])
        sound        == play_collision_sound(send_default(ev, hit.events), players)
    IN  [ball_translation |-> moved_ball,
         ball_velocity |-> hit.vel,
         paddle_translation |-> moved_paddle,
         bricks |-> left_bricks,
         score |-> hit.score,
         events |-> sound.events,
         audio_players |-> sound.audio_players,
         sent |-> hit.events]

(***************************************************************************)
(* The schedules of main and the systems main and the plugin add to them   *)
(***************************************************************************)
\* .chain(): the systems run in this order
FixedUpdateSystems ==
    <<"apply_velocity", "move_paddle", "check_for_collisions", "play_collision_sound">>

\* add_plugins(DefaultPlugins) comes first in main: the systems the engine
\* itself keeps in Update stand before the game's.  The engine is not part
\* of the repository; its window plugin's close_when_requested stands for
\* them.
EngineUpdateSystems == <<"bevy_window::system::close_when_requested">>

\* Update in the order Schedule::systems yields it
UpdateSystems == EngineUpdateSystems \o <<"update_scoreboard">>

DebugScheduleSystems == <<"build_ui", "handle_input", "update_ui">>

ScheduleSystems(label) ==
    CASE label = "FixedUpdate" -> FixedUpdateSystems
      [] label = "Update" -> UpdateSystems
      [] label = "DebugSchedule" -> DebugScheduleSystems

\* str::starts_with
starts_with(name, prefix) ==
    Len(name) >= Len(prefix) /\ SubSeq(name, 1, Len(prefix)) = prefix

\* the systems of the stepped schedules, the engine's among them
SteppedSystems ==
    { FixedUpdateSystems[i] : i \in 1..Len(FixedUpdateSystems) }
        \cup { UpdateSystems[i] : i \in 1..Len(UpdateSystems) }

\* the systems main adds to FixedUpdate and Update
GameSystems == { name \in SteppedSystems : ~starts_with(name, "bevy") }

SteppedSchedules_update_only == <<"Update">>

\* SteppingPlugin::default().add_schedule(Update).add_schedule(FixedUpdate)
SteppedSchedules == <<"Update", "FixedUpdate">>

(***************************************************************************)
(* The Stepping resource of bevy_ecs as the plugin uses it.  The engine is *)
(* not part of the repository; this is its behaviour at the calls the      *)
(* plugin makes.  enable, disable, step_frame, continue_frame,             *)
(* always_run_node and add_schedule only queue an update;                  *)
(* Stepping::begin_frame, which the engine runs before the schedules of    *)
(* every frame, applies the queue.  is_enabled reads the action in force.  *)
(* schedule_states maps each stepped label to its ScheduleState:           *)
(* behaviors, the systems marked SystemBehavior::AlwaysRun (a system       *)
(* stands for its NodeId), and first, the place of the first system that   *)
(* is not so marked (-1: None).  Indices (cursor, first,                   *)
(* previous_schedule) count from 0 as in the engine.                       *)
(***************************************************************************)
\* ScheduleState::default()
ScheduleStateDefault == [behaviors |-> {}, first |-> -1]

\* Stepping::new() followed by add_schedule for each label of the plugin
SteppingNew(labels) ==
    [action |-> "RunAll",
     updates |-> [i \in 1..Len(labels) |-> <<"AddSchedule", labels[i]>>],
     cursor |-> <<0, 0>>,
     schedule_order |-> <<>>,
     schedule_states |-> [l \in {} |-> ScheduleStateDefault],
     previous_schedule |-> -1]

\* Stepping::is_enabled
is_enabled(st) == st.action # "RunAll"

\* Stepping::enable / disable / step_frame / continue_frame
enable(st) == [st EXCEPT !.updates = Append(@, <<"SetAction", "Waiting">>)]

disable(st) == [st EXCEPT !.updates = Append(@, <<"SetAction", "RunAll">>)]

step_frame(st) == [st EXCEPT !.updates = Append(@, <<"SetAction", "Step">>)]

continue_frame(st) == [st EXCEPT !.updates = Append(@, <<"SetAction", "Continue">>)]

\* Stepping::always_run_node(schedule, node)
always_run_node(st, label, node) ==
    [st EXCEPT !.updates = Append(@, <<"SetBehavior", label, node>>)]

\* Stepping::schedules: Ok(order) once every stepped schedule has run, else NotReady
schedules_ready(st) == Len(st.schedule_order) = Cardinality(DOMAIN st.schedule_states)

\* the action transitions next_frame refuses
IgnoredTransition(from, to) ==
    \/ from = to
    \/ from \in {"Continue", "Step"} /\ to = "Waiting"
    \/ from = "RunAll" /\ to \in {"Step", "Continue"}
    \/ from = "Continue" /\ to = "Step"
    \/ from = "Step" /\ to = "Continue"

\* HashMap::insert(label, state)
insert_state(states, label, state) ==
    [l \in DOMAIN states \cup {label} |-> IF l = label THEN state ELSE states[l]]

\* ScheduleState::set_behavior(SystemIdentifier::Node(node), AlwaysRun)
set_behavior(state, node) == [behaviors |-> state.behaviors \cup {node}, first |-> -1]

\* one queued update applied; acc = [st, reset_cursor]
apply_update(acc, update) ==
    IF update[1] = "AddSchedule"
    THEN [acc EXCEPT !.st.schedule_states = insert_state(@, update[2], ScheduleStateDefault)]
    ELSE IF update[1] = "SetBehavior"
    THEN [st |-> IF update[2] \in DOMAIN acc.st.schedule_states
                 THEN [acc.st EXCEPT !.schedule_states[update[2]] = set_behavior(@, update[3])]
                 ELSE acc.st,
          reset_cursor |-> TRUE]
    ELSE IF update[2] = "RunAll"
    THEN [st |-> [acc.st EXCEPT !.action = "RunAll"], reset_cursor |-> TRUE]
    ELSE IF IgnoredTransition(acc.st.action, update[2]) THEN acc
    ELSE [acc EXCEPT !.st.action = update[2]]

RECURSIVE apply_updates(_, _)
apply_updates(acc, queue) ==
    IF queue = <<>> THEN acc ELSE apply_updates(apply_update(acc, Head(queue)), Tail(queue))

\* Stepping::first_system_index_for_schedule(index)
first_system_index_for_schedule(st, index) ==
    IF index >= Len(st.schedule_order) THEN 0
    ELSE LET label == st.schedule_order[index + 1]
         IN  IF label \notin DOMAIN st.schedule_states THEN 0
             ELSE Max(st.schedule_states[label].first, 0)

\* Stepping::reset_cursor
reset_cursor(st) == [st EXCEPT !.cursor = <<0, first_system_index_for_schedule(st, 0)>>]

\* Stepping::next_frame, run by Stepping::begin_frame
next_frame(st) ==
    LET s0 == IF st.action # "RunAll"
              THEN [st EXCEPT !.action = "Waiting", !.previous_schedule = -1]
              ELSE st
        s1 == IF st.action # "RunAll" /\ s0.cursor[1] >= Len(s0.schedule_order)
              THEN reset_cursor(s0) ELSE s0
        r  == apply_updates([st |-> s1, reset_cursor |-> FALSE], s1.updates)
        s2 == [r.st EXCEPT !.updates = <<>>]
    IN  IF r.reset_cursor THEN reset_cursor(s2) ELSE s2

\* place of a label in schedule_order, from 0; -1 when absent
OrderIndex(order, label) ==
    IF \E i \in 1..Len(order) : order[i] = label
    THEN (CHOOSE i \in 1..Len(order) : order[i] = label) - 1
    ELSE -1

\* Vec::insert(index, label), index from 0
InsertAt(order, index, label) ==
    [i \in 1..(Len(order) + 1) |->
        IF i <= index THEN order[i] ELSE IF i = index + 1 THEN label ELSE order[i - 1]]

\* ScheduleState::skipped_systems, where it sets first: the place of the
\* first system not marked AlwaysRun, -1 when there is none
first_system(systems, always) ==
    LET free == { i \in 0..(Len(systems) - 1) : systems[i + 1] \notin always }
    IN  IF free = {} THEN -1 ELSE CHOOSE i \in free : \A k \in free : i <= k

RECURSIVE skipped_from(_, _, _, _, _)
\* ScheduleState::skipped_systems, its loop from the i-th system on.
\* acc = [skip, pos, action]: the skip list, the cursor and the action, which
\* a step turns into Waiting.
skipped_from(acc, systems, always, start, i) ==
    IF i >= Len(systems) THEN acc
    ELSE LET name == systems[i + 1]
             matched ==
                 IF name \in always
                 THEN [acc EXCEPT !.pos = IF i = acc.pos THEN i + 1 ELSE @]
                 ELSE IF acc.action = "Waiting"
                 THEN [acc EXCEPT !.skip = @ \cup {name}]
                 ELSE IF acc.action = "Step"
                 THEN (IF i < acc.pos THEN [acc EXCEPT !.skip = @ \cup {name}]
                       ELSE [acc EXCEPT !.pos = @ + 1, !.action = "Waiting"])
                 ELSE \* Continue over a system of behaviour Continue
                      IF i < start THEN [acc EXCEPT !.skip = @ \cup {name}] ELSE acc
             advanced ==
                 IF i = matched.pos /\ matched.action # "Waiting"
                 THEN [matched EXCEPT !.pos = @ + 1] ELSE matched
         IN  skipped_from(advanced, systems, always, start, i + 1)

\* ScheduleState::skipped_systems(schedule, start, action): [skip, next];
\* next = -1 stands for None
schedule_skipped_systems(systems, always, start, action) ==
    LET r == skipped_from([skip |-> {}, pos |-> start, action |-> action],
                          systems, always, start, 0)
    IN  [skip |-> r.skip, next |-> IF r.pos >= Len(systems) THEN -1 ELSE r.pos]

\* Stepping::skipped_systems(schedule): [st, skip]
skipped_systems(st, label) ==
    IF st.action = "RunAll" \/ label \notin DOMAIN st.schedule_states
    THEN [st |-> st, skip |-> {}]
    ELSE LET found == OrderIndex(st.schedule_order, label)
             index == IF found >= 0 THEN found ELSE st.previous_schedule + 1
             order == IF found >= 0 THEN st.schedule_order
                      ELSE InsertAt(st.schedule_order, index, label)
             state == st.schedule_states[label]
             first == IF state.first >= 0 THEN state.first
                      ELSE first_system(ScheduleSystems(label), state.behaviors)
             on_cursor == index = st.cursor[1]
             r == IF on_cursor
                  THEN schedule_skipped_systems(ScheduleSystems(label), state.behaviors,
                                                st.cursor[2], st.action)
                  ELSE [skip |-> schedule_skipped_systems(ScheduleSystems(label),
                                                          state.behaviors, 0, "Waiting").skip,
                        next |-> st.cursor[2]]
             visited == [st EXCEPT !.schedule_order = order,
                                   !.previous_schedule = index,
                                   !.schedule_states[label].first = first,
                                   !.action = IF on_cursor /\ st.action = "Step"
                                              THEN "Waiting" ELSE @]
         IN  [st |-> [visited EXCEPT
                        !.cursor = IF r.next >= 0 THEN <<st.cursor[1], r.next>>
                                   ELSE <<st.cursor[1] + 1,
                                          first_system_index_for_schedule(visited,
                                                                          st.cursor[1] + 1)>>],
              skip |-> r.skip]

\* Stepping::cursor: the <<label, system>> under the cursor, <<>> for None
stepping_cursor(st) ==
    IF st.action = "RunAll" \/ st.cursor[1] >= Len(st.schedule_order) THEN <<>>
    ELSE LET label == st.schedule_order[st.cursor[1] + 1]
         IN  IF label \notin DOMAIN st.schedule_states
                \/ st.cursor[2] >= Len(ScheduleSystems(label)) THEN <<>>
             ELSE <<label, ScheduleSystems(label)[st.cursor[2] + 1]>>

(***************************************************************************)
(* The stepping plugin: initialized, build_ui, handle_input, update_ui     *)
(***************************************************************************)
initialized_never(systems) == FALSE

\* initialized: !state.systems.is_empty()
initialized(systems) == systems # <<>>

RECURSIVE build_spans(_, _, _, _, _)
\* the loops of build_ui over the labels from the k-th on.  acc = [systems,
\* spans, always_run, returned]: State.systems, the number of text spans
\* pushed, the engine's systems met, and whether
\* `let Ok(systems) = schedule.systems() else { return }` returned.
build_spans(acc, order, have_run, k, j) ==
    IF acc.returned \/ k > Len(order) THEN acc
    ELSE LET label == order[k]
             names == ScheduleSystems(label)
         IN  IF j = 0
             THEN \* the label's span is pushed, then schedule.systems() is asked
                  IF label \notin have_run
                  THEN [acc EXCEPT !.spans = @ + 1, !.returned = TRUE]
                  ELSE build_spans([acc EXCEPT !.spans = @ + 1], order, have_run, k, 1)
             ELSE IF j > Len(names) THEN build_spans(acc, order, have_run, k + 1, 0)
             ELSE IF starts_with(names[j], "bevy")
             THEN build_spans([acc EXCEPT !.always_run = Append(@, <<label, names[j]>>)],
                              order, have_run, k, j + 1)
             ELSE build_spans([acc EXCEPT
                                  !.systems = Append(@, <<label, names[j], acc.spans + 1>>),
                                  !.spans = @ + 2],
                              order, have_run, k, j + 1)

RECURSIVE always_run_nodes(_, _)
\* the drain of always_run: stepping.always_run_node for each, in order
always_run_nodes(st, nodes) ==
    IF nodes = <<>> THEN st
    ELSE always_run_nodes(always_run_node(st, Head(nodes)[1], Head(nodes)[2]), Tail(nodes))

\* build_ui: [systems, stepping, spawned]: State.systems and the Stepping
\* resource afterwards and whether the SteppingUi entity was spawned
build_ui(st, systems, have_run) ==
    IF ~schedules_ready(st) THEN [systems |-> systems, stepping |-> st, spawned |-> FALSE]
    ELSE LET r == build_spans([systems |-> systems, spans |-> 0, always_run |-> <<>>,
                               returned |-> FALSE],
                              st.schedule_order, have_run, 1, 0)
         IN  [systems |-> r.systems,
              stepping |-> IF r.returned THEN st ELSE always_run_nodes(st, r.always_run),
              spawned |-> ~r.returned]

\* handle_input: the Stepping methods it calls, in order, for the keys just
\* pressed (Slash only logs)
handle_input(st, pressed) ==
    LET toggled == IF "Backquote" \in pressed
                   THEN (IF is_enabled(st) THEN <<"disable">> ELSE <<"enable">>)
                   ELSE <<>>
    IN  IF ~is_enabled(st) THEN toggled
        ELSE IF "Space" \in pressed THEN toggled \o <<"continue_frame">>
        ELSE IF "KeyS" \in pressed THEN toggled \o <<"step_frame">>
        ELSE toggled

SteppingCall(st, call) ==
    CASE call = "enable" -> enable(st)
      [] call = "disable" -> disable(st)
      [] call = "step_frame" -> step_frame(st)
      [] call = "continue_frame" -> continue_frame(st)

RECURSIVE SteppingCalls(_, _)
SteppingCalls(st, names) ==
    IF names = <<>> THEN st ELSE SteppingCalls(SteppingCall(st, Head(names)), Tail(names))

update_ui_visibility_never_hides(vis, enabled) ==
    IF vis = "Hidden" /\ enabled THEN "Inherited" ELSE vis

\* update_ui, its match on (vis, stepping.is_enabled()): the Visibility the
\* SteppingUi entity has once the commands are applied
update_ui_visibility(vis, enabled) ==
    IF vis = "Hidden" /\ enabled THEN "Inherited"
    ELSE IF (vis = "Hidden" /\ ~enabled) \/ enabled THEN vis
    ELSE "Hidden"

\* update_ui, the rest: the text index that shows "-> " afterwards (0: none).
\* Without stepping or without a cursor the marks stay as they are.
update_ui_mark(st, systems, mark) ==
    IF ~is_enabled(st) \/ stepping_cursor(st) = <<>> THEN mark
    ELSE LET c == stepping_cursor(st)
             hits == { i \in 1..Len(systems) : systems[i][1] = c[1] /\ systems[i][2] = c[2] }
         IN  IF hits = {} THEN 0 ELSE systems[CHOOSE i \in hits : TRUE][3]

(***************************************************************************)
(* The arena: setup, then runs of FixedUpdate under any arrow keys         *)
(***************************************************************************)
ArrowKeys == {"ArrowLeft", "ArrowRight"}

CollideIdle ==
    /\ cball = <<0, 0>>
    /\ cvel = <<0, 0>>
    /\ ccolliders = <<>>
    /\ cidx = 0
    /\ ccollision = "Unset"
    /\ cscore = 0
    /\ cevents = 0
    /\ cdespawned = <<>>

WorldBeforeSetup ==
    /\ pc = "startup"
    /\ setup_checks = [arena_height |-> 0, arena_width |-> 0, total_width_of_bricks |-> 0,
                       total_height_of_bricks |-> 0, n_columns |-> 0]
    /\ paddle_translation = <<0, 0>>
    /\ ball_translation = <<0, 0>>
    /\ ball_velocity = <<0, 0>>
    /\ walls = <<>>
    /\ bricks = <<>>
    /\ score = 0
    /\ arrows = {}
    /\ arena_ticks = 0

AppBeforeStartup ==
    /\ frame = 0
    /\ just_pressed = {}
    /\ fixed_left = 0
    /\ scoreboard = -1
    /\ audio_players = 0
    /\ events = [old |-> 0, new |-> 0]
    /\ should_update = "Always"
    /\ skip = {}
    /\ schedule_ran = {}
    /\ state_systems = <<>>
    /\ ui = <<>>
    /\ ui_mark = 0
    /\ calls = <<>>
    /\ ran = {}
    /\ tick = [sent |-> 0, sounds |-> 0, unread |-> 0, ran |-> {}]

\* the app's part of the state where only the arena or the collision loop is looked at
AppIdle ==
    /\ AppBeforeStartup
    /\ feature = FALSE
    /\ stepping = SteppingNew(<<>>)

\* 2d/sprite_sheet before its Startup: no sprite yet, shown as index 0 and a
\* timer at rest
SheetBeforeSetup ==
    /\ sheet_pc = "startup"
    /\ sheet_frames = 0
    /\ atlas_index = 0
    /\ animation_timer = [elapsed |-> 0, times_finished |-> 0]

\* 2d/twod_rotation before its Startup: no player yet, shown at the origin
RotationBeforeSetup ==
    /\ rot_pc = "startup"
    /\ player_translation = <<0, 0, 0>>
    /\ player_heading = 0
    /\ flight = [turns |-> 0, cruise |-> 0, free |-> 0]

ArenaInit ==
    CollideIdle /\ WorldBeforeSetup /\ AppIdle /\ SheetBeforeSetup /\ RotationBeforeSetup

ArenaSetup == setup /\ UNCHANGED <<arenaVars, rotVars, sheetVars, collideVars, arrows, appVars>>

\* one run of FixedUpdate with nothing skipped: the four chained systems in
\* order, the despawn commands of check_for_collisions applied after it
ArenaTick ==
    /\ pc = "begin_frame"
    /\ arena_ticks < MaxArenaTicks
    /\ arena_ticks' = arena_ticks + 1
    /\ arrows' \in SUBSET ArrowKeys
    /\ \E r \in {fixed_update(ball_translation, ball_velocity, paddle_translation, walls,
                               bricks, score, events, audio_players, arrows')} :
           /\ ball_translation' = r.ball_translation
           /\ ball_velocity' = r.ball_velocity
           /\ paddle_translation' = r.paddle_translation
           /\ bricks' = r.bricks
           /\ score' = r.score
           /\ events' = r.events
           /\ audio_players' = r.audio_players
           /\ tick' = [sent |-> r.sent, sounds |-> r.audio_players - audio_players,
                       unread |-> events.old + events.new,
                       ran |-> { FixedUpdateSystems[i] : i \in 1..Len(FixedUpdateSystems) }]
    /\ UNCHANGED <<rotVars, sheetVars, collideVars, pc, setup_checks, walls,
                   just_pressed, fixed_left, feature, frame, scoreboard, should_update,
                   stepping, skip, schedule_ran, state_systems, ui, ui_mark, calls, ran>>

ArenaNext == ArenaSetup \/ ArenaTick

SpecArena == ArenaInit /\ [][ArenaNext]_vars

(***************************************************************************)
(* The collision loop on bounded inputs                                    *)
(***************************************************************************)
Grid == (-GridMax)..GridMax

\* colliders of the bounded grid: a brick-like box off the origin and a
\* wall-like box, as [center, half, brick]
TestBoxes ==
    { [center |-> <<1, 0>>,  half |-> <<2, 1>>, brick |-> TRUE],
      [center |-> <<-1, 1>>, half |-> <<1, 3>>, brick |-> FALSE] }

TestVelocities == {-1, 0, 1}

SeqsUpTo(S, n) == UNION { [1..k -> S] : k \in 1..n }

CollideInit ==
    /\ cball \in Grid \X Grid
    /\ cvel \in TestVelocities \X TestVelocities
    /\ ccolliders \in SeqsUpTo(TestBoxes, MaxColliders)
    /\ cidx = 0
    /\ ccollision = "Unset"
    /\ cscore = 0
    /\ cevents = 0
    /\ cdespawned = <<>>
    /\ WorldBeforeSetup
    /\ AppIdle
    /\ SheetBeforeSetup
    /\ RotationBeforeSetup

\* one iteration of `for (collider_entity, collider_transform, maybe_brick) in &collider_query`
CollideIteration ==
    /\ cidx < Len(ccolliders)
    /\ LET c   == ccolliders[cidx + 1]
           acc == collide_one([vel |-> cvel, score |-> cscore, events |-> cevents,
                               despawned |-> cdespawned],
                              cball, BALL_DIAMETER \div 2, c, cidx + 1)
       IN  /\ ccollision' = collider_collision(cball, BALL_DIAMETER \div 2, c)
           /\ cvel' = acc.vel
           /\ cscore' = acc.score
           /\ cevents' = acc.events
           /\ cdespawned' = acc.despawned
    /\ cidx' = cidx + 1
    /\ UNCHANGED <<cball, ccolliders, pc, worldVars, arrows, appVars, arenaVars, sheetVars, rotVars>>

CollideNext == CollideIteration

SpecCollide == CollideInit /\ [][CollideNext]_vars

(***************************************************************************)
(* The app: App::run.  Startup once, then frame after frame the engine's   *)
(* Main schedule: Stepping::begin_frame, First (event_update_system),      *)
(* RunFixedMainLoop (FixedUpdate 0 or more times, each followed by         *)
(* FixedPostUpdate's signal_event_update_system), Update, and after Update *)
(* the plugin's DebugSchedule.  The keys of a frame are read by the        *)
(* engine before the fixed loop and stay the same through the frame.       *)
(***************************************************************************)
SteppingKeys == {"Backquote", "Space", "KeyS"}

\* the arrow keys held through a frame of the app: none, or ArrowRight
FrameArrows == {{}, {"ArrowRight"}}

Place(systems, name) == CHOOSE i \in 1..Len(systems) : systems[i] = name

\* what runs after a system of FixedUpdate
AfterFixed(name) ==
    IF Place(FixedUpdateSystems, name) = Len(FixedUpdateSystems)
    THEN "signal_event_update_system"
    ELSE FixedUpdateSystems[Place(FixedUpdateSystems, name) + 1]

\* what runs after a system of Update: after the last one the DebugSchedule
\* when the plugin added it
AfterUpdate(name) ==
    IF Place(UpdateSystems, name) = Len(UpdateSystems)
    THEN (IF feature THEN "build_ui" ELSE "begin_frame")
    ELSE UpdateSystems[Place(UpdateSystems, name) + 1]

\* what runs after a system of a stepped schedule
AfterSystem(name) ==
    IF \E i \in 1..Len(UpdateSystems) : UpdateSystems[i] = name
    THEN AfterUpdate(name) ELSE AfterFixed(name)

\* SteppingPlugin::build: without the feature it returns before it inserts
\* the resource and the schedule
Init ==
    /\ CollideIdle
    /\ WorldBeforeSetup
    /\ AppBeforeStartup
    /\ SheetBeforeSetup
    /\ RotationBeforeSetup
    /\ feature \in BOOLEAN
    /\ stepping = SteppingNew(IF feature THEN SteppedSchedules ELSE <<>>)

\* Startup: setup (build_stepping_hint spawns a text and nothing else)
Startup ==
    /\ setup
    /\ UNCHANGED <<arenaVars, rotVars, sheetVars, collideVars, arrows, appVars>>

\* a frame begins: Stepping::begin_frame, and the input of the frame
BeginFrame ==
    /\ pc = "begin_frame"
    /\ frame < QuietFrames + MaxFrames
    /\ frame' = frame + 1
    /\ IF frame < QuietFrames
       THEN arrows' = {} /\ just_pressed' = {} /\ fixed_left' = 1
       ELSE /\ arrows' \in FrameArrows
            /\ just_pressed' \in (IF feature THEN SUBSET SteppingKeys ELSE {{}})
            /\ fixed_left' \in 0..MaxFixedRuns
    /\ stepping' = (IF feature THEN next_frame(stepping) ELSE stepping)
    /\ ran' = {}
    /\ pc' = "event_update_system"
    /\ UNCHANGED <<arenaVars, rotVars, sheetVars, collideVars, worldVars, feature, scoreboard, audio_players, events,
                   should_update, skip, schedule_ran, state_systems, ui, ui_mark, calls, tick>>

\* First: event_update_system.run_if(event_update_condition): every frame
\* until FixedPostUpdate has run once, from then on only after
\* signal_event_update_system has signalled
EventUpdateSystem ==
    /\ pc = "event_update_system"
    /\ events' = (IF should_update = "Waiting" THEN events ELSE events_update(events))
    /\ should_update' = (IF should_update = "Ready" THEN "Waiting" ELSE should_update)
    /\ pc' = "run_fixed_main_schedule"
    /\ UNCHANGED <<arenaVars, rotVars, sheetVars, collideVars, worldVars, arrows, feature, frame, just_pressed, fixed_left,
                   scoreboard, audio_players, stepping, skip, schedule_ran, state_systems,
                   ui, ui_mark, calls, ran, tick>>

\* run_fixed_main_schedule starts one more run of FixedUpdate; the executor
\* asks Stepping which systems to skip
RunFixedUpdate ==
    /\ pc = "run_fixed_main_schedule"
    /\ fixed_left > 0
    /\ fixed_left' = fixed_left - 1
    /\ LET r == skipped_systems(stepping, "FixedUpdate")
       IN  stepping' = r.st /\ skip' = r.skip
    /\ schedule_ran' = schedule_ran \cup {"FixedUpdate"}
    /\ tick' = [sent |-> 0, sounds |-> 0, unread |-> events.old + events.new, ran |-> {}]
    /\ pc' = FixedUpdateSystems[1]
    /\ UNCHANGED <<arenaVars, rotVars, sheetVars, collideVars, worldVars, arrows, feature, frame, just_pressed,
                   scoreboard, audio_players, events, should_update, state_systems,
                   ui, ui_mark, calls, ran>>

\* the fixed loop is over; Update runs
RunUpdate ==
    /\ pc = "run_fixed_main_schedule"
    /\ fixed_left = 0
    /\ LET r == skipped_systems(stepping, "Update")
       IN  stepping' = r.st /\ skip' = r.skip
    /\ schedule_ran' = schedule_ran \cup {"Update"}
    /\ pc' = UpdateSystems[1]
    /\ UNCHANGED <<arenaVars, rotVars, sheetVars, collideVars, worldVars, arrows, feature, frame, just_pressed, fixed_left,
                   scoreboard, audio_players, events, should_update, state_systems,
                   ui, ui_mark, calls, ran, tick>>

\* a system on the skip list of its schedule's run does not run
SkipSystem ==
    /\ pc \in SteppedSystems
    /\ pc \in skip
    /\ pc' = AfterSystem(pc)
    /\ UNCHANGED <<arenaVars, rotVars, sheetVars, collideVars, worldVars, arrows, feature, frame, just_pressed, fixed_left,
                   scoreboard, audio_players, events, should_update, stepping, skip,
                   schedule_ran, state_systems, ui, ui_mark, calls, ran, tick>>

ApplyVelocity ==
    /\ pc = "apply_velocity"
    /\ pc \notin skip
    /\ ball_translation' = apply_velocity(ball_translation, ball_velocity)
    /\ pc' = AfterFixed(pc)
    /\ ran' = ran \cup {pc}
    /\ tick' = [tick EXCEPT !.ran = @ \cup {pc}]
    /\ UNCHANGED <<arenaVars, rotVars, sheetVars, collideVars, setup_checks, paddle_translation, ball_velocity, walls,
                   bricks, score, arrows, feature, frame, just_pressed, fixed_left,
                   scoreboard, audio_players, events, should_update, stepping, skip,
                   schedule_ran, state_systems, ui, ui_mark, calls>>

MovePaddle ==
    /\ pc = "move_paddle"
    /\ pc \notin skip
    /\ paddle_translation' = move_paddle(paddle_translation, arrows)
    /\ pc' = AfterFixed(pc)
    /\ ran' = ran \cup {pc}
    /\ tick' = [tick EXCEPT !.ran = @ \cup {pc}]
    /\ UNCHANGED <<arenaVars, rotVars, sheetVars, collideVars, setup_checks, ball_translation, ball_velocity, walls,
                   bricks, score, arrows, feature, frame, just_pressed, fixed_left,
                   scoreboard, audio_players, events, should_update, stepping, skip,
                   schedule_ran, state_systems, ui, ui_mark, calls>>

\* check_for_collisions, with its despawn commands applied at the sync point
\* that follows it
CheckForCollisions ==
    /\ pc = "check_for_collisions"
    /\ pc \notin skip
    /\ LET r == check_for_collisions(ball_translation, ball_velocity, paddle_translation,
                                     walls, bricks, score)
           colliders == collider_query(paddle_translation, walls, bricks)
       IN  /\ ball_velocity' = r.vel
           /\ score' = r.score
           /\ events' = send_default(events, r.events)
           /\ bricks' = despawn_all(bricks,
                            [k \in 1..Len(r.despawned) |-> colliders[r.despawned[k]].center])
           /\ tick' = [tick EXCEPT !.ran = @ \cup {pc}, !.sent = @ + r.events]
    /\ pc' = AfterFixed(pc)
    /\ ran' = ran \cup {pc}
    /\ UNCHANGED <<arenaVars, rotVars, sheetVars, collideVars, setup_checks, paddle_translation, ball_translation, walls,
                   arrows, feature, frame, just_pressed, fixed_left,
                   scoreboard, audio_players, should_update, stepping, skip,
                   schedule_ran, state_systems, ui, ui_mark, calls>>

PlayCollisionSound ==
    /\ pc = "play_collision_sound"
    /\ pc \notin skip
    /\ LET r == play_collision_sound(events, audio_players)
       IN  /\ events' = r.events
           /\ audio_players' = r.audio_players
           /\ tick' = [tick EXCEPT !.ran = @ \cup {pc},
                                   !.sounds = @ + (r.audio_players - audio_players)]
    /\ pc' = AfterFixed(pc)
    /\ ran' = ran \cup {pc}
    /\ UNCHANGED <<arenaVars, rotVars, sheetVars, collideVars, worldVars, arrows, feature, frame, just_pressed, fixed_left,
                   scoreboard, should_update, stepping, skip,
                   schedule_ran, state_systems, ui, ui_mark, calls>>

\* FixedPostUpdate: signal_event_update_system
SignalEventUpdateSystem ==
    /\ pc = "signal_event_update_system"
    /\ should_update' = "Ready"
    /\ pc' = "run_fixed_main_schedule"
    /\ UNCHANGED <<arenaVars, rotVars, sheetVars, collideVars, worldVars, arrows, feature, frame, just_pressed, fixed_left,
                   scoreboard, audio_players, events, stepping, skip, schedule_ran,
                   state_systems, ui, ui_mark, calls, ran, tick>>

\* a system of the engine in Update runs: it touches nothing of the game
\* (no window is asked to close)
EngineSystem ==
    /\ pc \in SteppedSystems \ GameSystems
    /\ pc \notin skip
    /\ pc' = AfterSystem(pc)
    /\ ran' = ran \cup {pc}
    /\ UNCHANGED <<arenaVars, rotVars, sheetVars, collideVars, worldVars, arrows, feature, frame, just_pressed,
                   fixed_left, scoreboard, audio_players, events, should_update, stepping,
                   skip, schedule_ran, state_systems, ui, ui_mark, calls, tick>>

\* update_scoreboard: the second text span shows the score
UpdateScoreboard ==
    /\ pc = "update_scoreboard"
    /\ pc \notin skip
    /\ scoreboard' = score
    /\ pc' = AfterUpdate(pc)
    /\ ran' = ran \cup {pc}
    /\ UNCHANGED <<arenaVars, rotVars, sheetVars, collideVars, worldVars, arrows, feature, frame, just_pressed, fixed_left,
                   audio_players, events, should_update, stepping, skip, schedule_ran,
                   state_systems, ui, ui_mark, calls, tick>>

\* build_ui.run_if(not(initialized)); its spawn is applied before handle_input
BuildUi ==
    /\ pc = "build_ui"
    /\ ~initialized(state_systems)
    /\ LET r == build_ui(stepping, state_systems, schedule_ran)
       IN  /\ state_systems' = r.systems
           /\ stepping' = r.stepping
           /\ ui' = (IF r.spawned THEN Append(ui, "Hidden") ELSE ui)
    /\ pc' = "handle_input"
    /\ ran' = ran \cup {pc}
    /\ UNCHANGED <<arenaVars, rotVars, sheetVars, collideVars, worldVars, arrows, feature, frame, just_pressed, fixed_left,
                   scoreboard, audio_players, events, should_update, skip,
                   schedule_ran, ui_mark, calls, tick>>

\* the run condition of build_ui is false
SkipBuildUi ==
    /\ pc = "build_ui"
    /\ initialized(state_systems)
    /\ pc' = "handle_input"
    /\ UNCHANGED <<arenaVars, rotVars, sheetVars, collideVars, worldVars, arrows, feature, frame, just_pressed, fixed_left,
                   scoreboard, audio_players, events, should_update, stepping, skip,
                   schedule_ran, state_systems, ui, ui_mark, calls, ran, tick>>

HandleInput ==
    /\ pc = "handle_input"
    /\ calls' = handle_input(stepping, just_pressed)
    /\ stepping' = SteppingCalls(stepping, handle_input(stepping, just_pressed))
    /\ pc' = "update_ui"
    /\ ran' = ran \cup {pc}
    /\ UNCHANGED <<arenaVars, rotVars, sheetVars, collideVars, worldVars, arrows, feature, frame, just_pressed, fixed_left,
                   scoreboard, audio_players, events, should_update, skip,
                   schedule_ran, state_systems, ui, ui_mark, tick>>

\* update_ui.run_if(initialized); Single<.., With<SteppingUi>> needs exactly
\* one such entity
UpdateUiRuns == initialized(state_systems) /\ Len(ui) = 1

UpdateUi ==
    /\ pc = "update_ui"
    /\ UpdateUiRuns
    /\ ui' = <<update_ui_visibility(ui[1], is_enabled(stepping))>>
    /\ ui_mark' = update_ui_mark(stepping, state_systems, ui_mark)
    /\ pc' = "begin_frame"
    /\ ran' = ran \cup {pc}
    /\ UNCHANGED <<arenaVars, rotVars, sheetVars, collideVars, worldVars, arrows, feature, frame, just_pressed, fixed_left,
                   scoreboard, audio_players, events, should_update, stepping, skip,
                   schedule_ran, state_systems, calls, tick>>

SkipUpdateUi ==
    /\ pc = "update_ui"
    /\ ~UpdateUiRuns
    /\ pc' = "begin_frame"
    /\ UNCHANGED <<arenaVars, rotVars, sheetVars, collideVars, worldVars, arrows, feature, frame, just_pressed, fixed_left,
                   scoreboard, audio_players, events, should_update, stepping, skip,
                   schedule_ran, state_systems, ui, ui_mark, calls, ran, tick>>

Next ==
    \/ Startup
    \/ BeginFrame
    \/ EventUpdateSystem
    \/ RunFixedUpdate
    \/ RunUpdate
    \/ SkipSystem
    \/ ApplyVelocity
    \/ MovePaddle
    \/ CheckForCollisions
    \/ PlayCollisionSound
    \/ SignalEventUpdateSystem
    \/ EngineSystem
    \/ UpdateScoreboard
    \/ BuildUi
    \/ SkipBuildUi
    \/ HandleInput
    \/ UpdateUi
    \/ SkipUpdateUi

Spec == Init /\ [][Next]_vars

(***************************************************************************)
(* 2d/sprite_sheet: setup and animate_sprite.  Time is kept in nanoseconds *)
(* as in std::time::Duration.                                              *)
(***************************************************************************)
\* AnimationIndices { first: 1, last: 6 }
ANIMATION_FIRST == 1
ANIMATION_LAST == 6

NANOS_PER_MILLI == 1000000

\* Timer::from_seconds(0.1, TimerMode::Repeating): Duration::from_secs_f32 of
\* the f32 nearest to 0.1, which is 0.100000001490116..., in whole nanoseconds
TIMER_DURATION_NS == 100000001

\* Timer::tick of a repeating timer that is not paused: the stopwatch
\* advances, and a timer that reached its duration counts how many times it
\* finished in this tick and keeps the remainder
timer_tick(timer, delta) ==
    LET elapsed == timer.elapsed + delta
    IN  IF elapsed >= TIMER_DURATION_NS
        THEN [elapsed |-> elapsed % TIMER_DURATION_NS,
              times_finished |-> elapsed \div TIMER_DURATION_NS]
        ELSE [elapsed |-> elapsed, times_finished |-> 0]

\* Timer::just_finished
just_finished(timer) == timer.times_finished > 0

next_index_from_zero(index) ==
    IF index = ANIMATION_LAST THEN 0 ELSE index + 1

\* animate_sprite, the new atlas.index of a just-finished timer
next_index(index) ==
    IF index = ANIMATION_LAST THEN ANIMATION_FIRST ELSE index + 1

\* animate_sprite: [timer, index] after one run under Time::delta() = delta
animate_sprite(timer, index, delta) ==
    LET ticked == timer_tick(timer, delta)
    IN  [timer |-> ticked,
         index |-> IF just_finished(ticked) THEN next_index(index) ELSE index]

\* the values Time::delta() takes, in nanoseconds
FrameDeltas ==
    { ms * NANOS_PER_MILLI : ms \in 0..MaxDeltaMs }
        \cup {TIMER_DURATION_NS, 2 * TIMER_DURATION_NS}

SheetInit ==
    CollideIdle /\ WorldBeforeSetup /\ AppIdle /\ SheetBeforeSetup /\ RotationBeforeSetup

\* Startup: setup spawns the sprite at index first with a fresh timer
SheetSetup ==
    /\ sheet_pc = "startup"
    /\ atlas_index' = ANIMATION_FIRST
    /\ animation_timer' = [elapsed |-> 0, times_finished |-> 0]
    /\ sheet_pc' = "update"
    /\ UNCHANGED <<sheet_frames, arenaVars, rotVars, collideVars, pc, worldVars, arrows, appVars>>

\* Update: animate_sprite under some Time::delta
AnimateSprite ==
    /\ sheet_pc = "update"
    /\ sheet_frames < MaxSheetFrames
    /\ sheet_frames' = sheet_frames + 1
    /\ \E delta \in FrameDeltas :
          LET r == animate_sprite(animation_timer, atlas_index, delta)
          IN  /\ animation_timer' = r.timer
              /\ atlas_index' = r.index
    /\ UNCHANGED <<arenaVars, rotVars, sheet_pc, collideVars, pc, worldVars, arrows, appVars>>

SheetNext == SheetSetup \/ AnimateSprite

SpecSheet == SheetInit /\ [][SheetNext]_vars

(***************************************************************************)
(* 2d/twod_rotation: setup and player_movement_system.  FixedUpdate runs   *)
(* at ROTATION_HZ, so one tick turns the ship by rotation_speed / 60 = 6   *)
(* degrees and the heading is a whole number of such steps.  Sines and     *)
(* cosines of these angles are kept times TRIG_SCALE, rounded, and lengths *)
(* in units of 1/UNITS_PER_PX px, chosen so that one tick at full speed    *)
(* moves the ship by exactly the scaled direction vector.                  *)
(***************************************************************************)
\* const BOUNDS: Vec2 = Vec2::new(1200.0, 640.0)
BOUNDS_X == 1200
BOUNDS_Y == 640

\* Time::<Fixed>::from_hz(60.0)
ROTATION_HZ == 60

\* Player { movement_speed: 500.0, rotation_speed: f32::to_radians(360.0) }
MOVEMENT_SPEED == 500
ROTATION_SPEED_DEG == 360

TRIG_SCALE == 10000

UNITS_PER_PX == (ROTATION_HZ * TRIG_SCALE) \div MOVEMENT_SPEED

\* ticks of turning that make a full circle
StepsPerCircle == (360 * ROTATION_HZ) \div ROTATION_SPEED_DEG

\* sin of 0, 6, .., 90 degrees times TRIG_SCALE
SinQuarter ==
    <<0, 1045, 2079, 3090, 4067, 5000, 5878, 6691, 7431, 8090, 8660, 9135, 9511, 9781,
      9945, 10000>>

RECURSIVE Sin(_)
\* sin of k steps times TRIG_SCALE
Sin(k) ==
    LET q == StepsPerCircle \div 4
        h == k % StepsPerCircle
    IN  IF h <= q THEN SinQuarter[h + 1]
        ELSE IF h <= 2 * q THEN SinQuarter[2 * q - h + 1]
        ELSE -Sin(h - 2 * q)

Cos(k) == Sin(k + StepsPerCircle \div 4)

RotationKeys == {"ArrowLeft", "ArrowRight", "ArrowUp"}

\* rotation_factor
rotation_factor(keys) ==
    (IF "ArrowLeft" \in keys THEN 1 ELSE 0) - (IF "ArrowRight" \in keys THEN 1 ELSE 0)

\* movement_factor
movement_factor(keys) == IF "ArrowUp" \in keys THEN 1 ELSE 0

\* transform.rotate_z(rotation_factor * ship.rotation_speed * time.delta_secs())
rotate_z(heading, keys) == (heading + rotation_factor(keys)) % StepsPerCircle

\* transform.rotation * Vec3::Y, times TRIG_SCALE
movement_direction(heading) == <<-Sin(heading), Cos(heading), 0>>

\* movement_direction * movement_distance, in units
translation_delta(heading, keys) ==
    [i \in 1..3 |-> movement_direction(heading)[i] * movement_factor(keys)]

\* Vec3::from((BOUNDS / 2.0, 0.0)), in units
extents == <<(BOUNDS_X * UNITS_PER_PX) \div 2, (BOUNDS_Y * UNITS_PER_PX) \div 2, 0>>

clamp_to_bounds_min_only(translation) ==
    [i \in 1..3 |-> Min(translation[i], extents[i])]

\* transform.translation.min(extents).max(-extents)
clamp_to_bounds(translation) ==
    [i \in 1..3 |-> Max(Min(translation[i], extents[i]), -extents[i])]

\* player_movement_system: [translation, heading] afterwards
player_movement_system(translation, heading, keys) ==
    LET turned == rotate_z(heading, keys)
        moved == [i \in 1..3 |-> translation[i] + translation_delta(turned, keys)[i]]
    IN  [translation |-> clamp_to_bounds(moved), heading |-> turned]

\* The key sequences flown: ArrowLeft alone for up to MaxTurnTicks ticks, then
\* ArrowUp alone for up to MaxCruiseTicks ticks, then any keys for up to
\* MaxFreeTicks ticks.  Flown(f, keys) is the set of counts after one more
\* tick under keys.
Flown(f, keys) ==
    { g \in { [f EXCEPT !.turns = @ + 1], [f EXCEPT !.cruise = @ + 1],
              [f EXCEPT !.free = @ + 1] } :
        \/ /\ g.turns > f.turns
           /\ keys = {"ArrowLeft"} /\ f.cruise = 0 /\ f.free = 0 /\ f.turns < MaxTurnTicks
        \/ /\ g.cruise > f.cruise
           /\ keys = {"ArrowUp"} /\ f.free = 0 /\ f.cruise < MaxCruiseTicks
        \/ /\ g.free > f.free
           /\ f.free < MaxFreeTicks }

RotationInit ==
    CollideIdle /\ WorldBeforeSetup /\ AppIdle /\ SheetBeforeSetup /\ RotationBeforeSetup

\* Startup: setup spawns the player with the default Transform
RotationSetup ==
    /\ rot_pc = "startup"
    /\ player_translation' = <<0, 0, 0>>
    /\ player_heading' = 0
    /\ rot_pc' = "fixed_update"
    /\ UNCHANGED <<flight, arenaVars, sheetVars, collideVars, pc, worldVars, arrows, appVars>>

\* FixedUpdate: player_movement_system under the keys held
PlayerMovementSystem ==
    /\ rot_pc = "fixed_update"
    /\ \E keys \in SUBSET RotationKeys :
          /\ flight' \in Flown(flight, keys)
          /\ LET r == player_movement_system(player_translation, player_heading, keys)
             IN  /\ player_translation' = r.translation
                 /\ player_heading' = r.heading
    /\ UNCHANGED <<rot_pc, arenaVars, sheetVars, collideVars, pc, worldVars, arrows, appVars>>

RotationNext == RotationSetup \/ PlayerMovementSystem

SpecRotation == RotationInit /\ [][RotationNext]_vars

(***************************************************************************)
(* Claims about the collision loop (SpecCollide)                           *)
(***************************************************************************)
\* the integer points of a box given as [center, half]
BoxPoints(c) ==
    ((c.center[1] - c.half[1])..(c.center[1] + c.half[1]))
        \X ((c.center[2] - c.half[2])..(c.center[2] + c.half[2]))

DistSq(p, q) == (p[1] - q[1]) * (p[1] - q[1]) + (p[2] - q[2]) * (p[2] - q[2])

\* the circle touches or overlaps the box: they share a point.  With an
\* integer centre and integer box corners the shared point nearest the centre
\* is an integer point.
Touches(center, radius, c) ==
    \E p \in BoxPoints(c) : DistSq(center, p) <= radius * radius

\* the box point closest to the ball centre
NearestBoxPoint(center, c) ==
    CHOOSE p \in BoxPoints(c) : \A q \in BoxPoints(c) : DistSq(center, p) <= DistSq(center, q)

\* the side the claim names for a touching ball
ClaimedSide(center, c) ==
    LET n  == NearestBoxPoint(center, c)
        ox == center[1] - n[1]
        oy == center[2] - n[2]
    IN  IF Abs(ox) > Abs(oy) /\ ox < 0 THEN "Left"
        ELSE IF Abs(ox) > Abs(oy) /\ ox > 0 THEN "Right"
        ELSE IF Abs(ox) <= Abs(oy) /\ oy > 0 THEN "Top"
        ELSE "Bottom"

\* C1: ball_collision returns None exactly when the ball's circle does not
\* touch or overlap the box; otherwise, with offset = ball centre minus the
\* closest box point, Left when |offset.x| > |offset.y| and offset.x < 0,
\* Right when |offset.x| > |offset.y| and offset.x > 0, Top when
\* |offset.x| <= |offset.y| and offset.y > 0, Bottom in every remaining case.
C1_BallCollisionSides ==
    cidx >= 1 =>
        LET c == ccolliders[cidx]
            r == BALL_DIAMETER \div 2
        IN  /\ (ccollision = "None") <=> ~Touches(cball, r, c)
            /\ Touches(cball, r, c) => ccollision = ClaimedSide(cball, c)

\* C1 witness: the ball centre lies inside the box (zero offset) and the
\* call answered Bottom; and a far ball was answered None.
C1_Witness ==
    /\ cidx = 1
    /\ cball \in BoxPoints(ccolliders[1])
    /\ ccollision = "Bottom"

\* C2: each colliding collider reflects the velocity only when the ball moves
\* toward the side hit (Left: x only if x > 0; Right: x only if x < 0; Top:
\* y only if y < 0; Bottom: y only if y > 0), leaves the other component
\* alone, and a collider that does not collide changes nothing.
C2_ReflectTowardSide ==
    [][cidx' = cidx + 1 =>
        LET col == ccollision'
            neg_x == cvel' = <<-cvel[1], cvel[2]>>
            neg_y == cvel' = <<cvel[1], -cvel[2]>>
            same  == cvel' = cvel
        IN  /\ col = "None" =>
                 same /\ cscore' = cscore /\ cevents' = cevents /\ cdespawned' = cdespawned
            /\ col = "Left"   => IF cvel[1] > 0 THEN neg_x ELSE same
            /\ col = "Right"  => IF cvel[1] < 0 THEN neg_x ELSE same
            /\ col = "Top"    => IF cvel[2] < 0 THEN neg_y ELSE same
            /\ col = "Bottom" => IF cvel[2] > 0 THEN neg_y ELSE same
      ]_vars

\* C2 witness: two colliders were hit in one run of the loop, the second on
\* its top side, and the ball now moves up and away from it.
C2_Witness ==
    /\ cidx = 2
    /\ cevents = 2
    /\ ccollision = "Top"
    /\ cvel[2] > 0

(***************************************************************************)
(* Claims about setup and the paddle (SpecArena)                           *)
(***************************************************************************)
SetupDone == pc \notin {"startup", "panicked"}

\* C3: the paddle never leaves the arena: after setup and any sequence of
\* move_paddle ticks under any arrow keys its x stays within
\* [LEFT_WALL + WALL_THICKNESS/2 + PADDLE_SIZE.x/2 + PADDLE_PADDING,
\*  RIGHT_WALL - WALL_THICKNESS/2 - PADDLE_SIZE.x/2 - PADDLE_PADDING]
\* = [-375, 375] px, and its y stays the one setup gave it.
C3_PaddleInArena ==
    SetupDone =>
        /\ 2 * (-375) = 2 * LEFT_WALL + WALL_THICKNESS + PADDLE_SIZE_X + 2 * PADDLE_PADDING
        /\ 2 * 375 = 2 * RIGHT_WALL - WALL_THICKNESS - PADDLE_SIZE_X - 2 * PADDLE_PADDING
        /\ (-375) * U <= paddle_translation[1]
        /\ paddle_translation[1] <= 375 * U
        /\ paddle_translation[2] = (BOTTOM_WALL + GAP_BETWEEN_PADDLE_AND_FLOOR) * U

\* C3 witness: the paddle stands at the right bound with ArrowRight held in
\* the last tick.
C3_Witness ==
    /\ SetupDone
    /\ paddle_translation[1] = 375 * U
    /\ arrows = {"ArrowRight"}

BrickLeft(b) == b[1] - (BRICK_SIZE_X * U) \div 2

BrickRight(b) == b[1] + (BRICK_SIZE_X * U) \div 2

BrickBottom(b) == b[2] - (BRICK_SIZE_Y * U) \div 2

BrickTop(b) == b[2] + (BRICK_SIZE_Y * U) \div 2

BrickSet == { bricks[k] : k \in 1..Len(bricks) }

PitchX == (BRICK_SIZE_X + GAP_BETWEEN_BRICKS) * U

PitchY == (BRICK_SIZE_Y + GAP_BETWEEN_BRICKS) * U

\* C8: setup spawns 8 columns by 7 rows of bricks, horizontally centred (the
\* grid is looked at as setup leaves it, before a tick can remove a brick);
\* every brick keeps at least GAP_BETWEEN_BRICKS_AND_SIDES to the side walls'
\* x, GAP_BETWEEN_BRICKS_AND_CEILING to TOP_WALL and
\* GAP_BETWEEN_PADDLE_AND_BRICKS to the paddle's y; distinct bricks do not
\* overlap and neighbours are GAP_BETWEEN_BRICKS apart.
C8_BrickGrid ==
    (SetupDone /\ arena_ticks = 0) =>
        LET xs == { b[1] : b \in BrickSet }
            ys == { b[2] : b \in BrickSet }
        IN  /\ Len(bricks) = 8 * 7
            /\ Cardinality(BrickSet) = 8 * 7
            /\ Cardinality(xs) = 8
            /\ Cardinality(ys) = 7
            \* centred between the side walls
            /\ \A b \in BrickSet : <<LEFT_WALL * U + RIGHT_WALL * U - b[1], b[2]>> \in BrickSet
            /\ \A b \in BrickSet :
                /\ BrickLeft(b) - LEFT_WALL * U >= GAP_BETWEEN_BRICKS_AND_SIDES * U
                /\ RIGHT_WALL * U - BrickRight(b) >= GAP_BETWEEN_BRICKS_AND_SIDES * U
                /\ TOP_WALL * U - BrickTop(b) >= GAP_BETWEEN_BRICKS_AND_CEILING * U
                /\ BrickBottom(b) - paddle_translation[2] >= GAP_BETWEEN_PADDLE_AND_BRICKS * U
            \* no overlap; along each axis the bricks sit one brick plus one gap apart
            /\ \A b1, b2 \in BrickSet :
                b1 # b2 =>
                    /\ \/ BrickRight(b1) <= BrickLeft(b2) \/ BrickRight(b2) <= BrickLeft(b1)
                       \/ BrickTop(b1) <= BrickBottom(b2) \/ BrickTop(b2) <= BrickBottom(b1)
                    /\ (b1[1] - b2[1]) % PitchX = 0
                    /\ (b1[2] - b2[2]) % PitchY = 0
            /\ \A x1, x2 \in xs : Abs(x1 - x2) <= 7 * PitchX
            /\ \A y1, y2 \in ys : Abs(y1 - y2) <= 6 * PitchY

\* C8 witness: setup has run and the grid is in the world, its lowest left
\* brick 270 px above the paddle.
C8_Witness ==
    /\ pc = "begin_frame"
    /\ arena_ticks = 0
    /\ Len(bricks) = 56
    /\ BrickBottom(bricks[1]) - paddle_translation[2] = 270 * U

\* C9: no assertion of setup or of WallLocation::size fails and the column
\* count does not underflow: setup never panics, the asserted quantities are
\* positive and n_columns >= 1.
C9_NoPanic ==
    /\ pc # "panicked"
    /\ pc # "startup" =>
        /\ setup_checks.arena_height > 0
        /\ setup_checks.arena_width > 0
        /\ setup_checks.total_width_of_bricks > 0
        /\ setup_checks.total_height_of_bricks > 0
        /\ setup_checks.n_columns >= 1

\* C9 witness: setup ran to its end with all four walls spawned.
C9_Witness ==
    /\ pc = "begin_frame"
    /\ Len(walls) = 4
    /\ setup_checks.n_columns = 8


(***************************************************************************)
(* Claims about the app with the stepping plugin (Spec)                    *)
(***************************************************************************)
GameState == <<ball_translation, ball_velocity, paddle_translation, score, bricks>>

\* the last run of handle_input called this method of Stepping
Called(name) == \E i \in DOMAIN calls : calls[i] = name

\* the last run of handle_input asked for no step and no continue
NoRequest == ~Called("step_frame") /\ ~Called("continue_frame")

Visible(vis) == vis # "Hidden"

\* C4: while stepping is enabled and the last handle_input asked for no step
\* and no continue (no S, no Space), no game system of Update or FixedUpdate
\* runs and ball, paddle, score and bricks stay as they are; handle_input
\* runs in every frame, a Backquote under stepping calls disable, and the
\* next frame then begins with stepping disabled.
C4_SteppingPauses ==
    [][ /\ (is_enabled(stepping) /\ NoRequest)
             => (UNCHANGED GameState /\ (pc \in GameSystems => pc \in skip))
        /\ (feature /\ pc = "begin_frame" /\ frame > 0) => "handle_input" \in ran
        /\ (pc = "handle_input" /\ is_enabled(stepping) /\ "Backquote" \in just_pressed)
             => (calls' # <<>> /\ calls'[1] = "disable")
        /\ (pc = "begin_frame" /\ Called("disable")) => ~is_enabled(stepping')
      ]_vars

\* stepping has been on for a frame or more with no request, the arrow key
\* is held, and move_paddle, which would move the paddle, is skipped
C4_Witness ==
    /\ is_enabled(stepping)
    /\ NoRequest
    /\ frame >= QuietFrames + 3
    /\ pc = "move_paddle"
    /\ pc \in skip
    /\ move_paddle(paddle_translation, arrows) # paddle_translation

\* C5: handle_input, judged on stepping as flipped by a just-pressed
\* Backquote: disabled, it calls neither continue_frame nor step_frame;
\* enabled, it calls at most one of them, continue_frame only for Space and
\* step_frame only for S without Space.
C5_StepOnlyWhileEnabled ==
    pc = "update_ui" =>
        LET before == is_enabled(stepping)
            after == IF "Backquote" \in just_pressed THEN ~before ELSE before
        IN  /\ "Backquote" \in just_pressed
                 => (calls # <<>> /\ calls[1] = (IF before THEN "disable" ELSE "enable"))
            /\ ~after => NoRequest
            /\ ~(Called("step_frame") /\ Called("continue_frame"))
            /\ Called("continue_frame") => "Space" \in just_pressed
            /\ Called("step_frame") => ("KeyS" \in just_pressed /\ "Space" \notin just_pressed)

\* C6: the SteppingUi entity is spawned at most once; once State.systems is
\* non-empty the entity exists, State.systems stays and build_ui does not run
\* again; a run of build_ui either returns early (State.systems empty,
\* nothing spawned) or fills State.systems and spawns the entity; update_ui
\* runs only when State.systems is non-empty and the entity exists.
C6_UiBuiltOnce ==
    [][ /\ Len(ui') <= 1
        /\ state_systems # <<>>
             => /\ Len(ui) = 1 /\ Len(ui') = 1
                /\ state_systems' = state_systems
                /\ "build_ui" \in ran' => "build_ui" \in ran
        /\ (pc = "build_ui" /\ "build_ui" \in ran')
             => \/ state_systems' = <<>> /\ ui' = ui
                \/ state_systems' # <<>> /\ Len(ui') = Len(ui) + 1
        /\ ("update_ui" \in ran' /\ "update_ui" \notin ran)
             => (state_systems # <<>> /\ Len(ui) = 1)
      ]_vars

\* after frames in which build_ui returned early the UI has been built, and
\* in this later frame build_ui did not run
C6_Witness ==
    /\ pc = "handle_input"
    /\ frame > QuietFrames
    /\ "build_ui" \notin ran
    /\ state_systems # <<>>
    /\ Len(ui) = 1

\* C7: build_ui spawns the SteppingUi entity hidden, and right after every
\* run of update_ui the entity is visible exactly if stepping is enabled.
C7_UiVisibleIffEnabled ==
    /\ (pc = "handle_input" /\ "build_ui" \in ran /\ ui # <<>>) => ui[Len(ui)] = "Hidden"
    /\ (pc = "begin_frame" /\ "update_ui" \in ran /\ ui # <<>>)
         => (Visible(ui[1]) <=> is_enabled(stepping))

\* update_ui has just hidden the UI again: stepping was enabled (the UI is
\* only built under stepping) and has been disabled
C7_Witness ==
    /\ pc = "begin_frame"
    /\ "update_ui" \in ran
    /\ ui = <<"Hidden">>
    /\ ~is_enabled(stepping)

\* C10: collision events are not carried over to a later frame, as the
\* comment on clear() in play_collision_sound has it: in every fixed tick in
\* which play_collision_sound runs, it spawns exactly one audio player if a
\* CollisionEvent was sent in that tick and none otherwise, so that a
\* collision of one tick causes no sound in a later tick.  The code does
\* otherwise when the stepping plugin runs check_for_collisions alone in a
\* tick: play_collision_sound is skipped in that tick, the event stays
\* unread, and the next tick that runs play_collision_sound spawns the audio
\* player with no event sent in it.
C10_Original ==
    (pc = "signal_event_update_system" /\ "play_collision_sound" \in tick.ran)
        => tick.sounds = (IF tick.sent >= 1 THEN 1 ELSE 0)

(***************************************************************************)
(* Claims about the sprite sheet (SpecSheet)                               *)
(***************************************************************************)
\* C11: once setup has run the atlas index is within [first, last] = [1, 6]
\* before and after every run of animate_sprite; a run changes the index
\* only if the timer just finished, and a run in which it just finished
\* moves the index from last to first or else up by exactly 1.
C11_AnimationCycles ==
    [][ sheet_pc = "update" =>
          /\ atlas_index \in 1..6
          /\ atlas_index' \in 1..6
          /\ atlas_index' # atlas_index => animation_timer'.times_finished > 0
          /\ animation_timer'.times_finished > 0
               => atlas_index' = (IF atlas_index = 6 THEN 1 ELSE atlas_index + 1)
      ]_vars

\* the timer just finished, twice or more in one frame, and the index went
\* from last back to first
C11_Witness ==
    /\ sheet_pc = "update"
    /\ atlas_index = 1
    /\ animation_timer.times_finished >= 2

(***************************************************************************)
(* Claims about the rotation demo (SpecRotation)                           *)
(***************************************************************************)
\* C12: after setup and after every run of player_movement_system the
\* player's translation has |x| <= 600 px, |y| <= 320 px and z = 0.
C12_PlayerInBounds ==
    rot_pc = "fixed_update" =>
        /\ player_translation[1] >= -600 * UNITS_PER_PX
        /\ player_translation[1] <= 600 * UNITS_PER_PX
        /\ player_translation[2] >= -320 * UNITS_PER_PX
        /\ player_translation[2] <= 320 * UNITS_PER_PX
        /\ player_translation[3] = 0

\* the ship has flown into the lower left corner of the bounds, where both
\* clamps hold it
C12_Witness ==
    /\ rot_pc = "fixed_update"
    /\ flight.cruise > 0
    /\ player_translation = <<-600 * UNITS_PER_PX, -320 * UNITS_PER_PX, 0>>

====
